---------------------------- MODULE Spec2Model ----------------------------
(***************************************************************************)
(* Model of package arigo's status.go: the Status / BitTorrentStatus       *)
(* records, the DownloadStatus / TorrentMode string types and the UNIXTime *)
(* adapter, together with the encoding/json and time behaviour that the    *)
(* struct tags and the two UNIXTime methods of status.go select.           *)
(*                                                                         *)
(* Representation.                                                         *)
(*   - A 64-bit word is its value modulo 2^64, written as the sequence of  *)
(*     its decimal digits, most significant first, without leading zeros   *)
(*     (<<0>> is zero).  An int64 is the two's complement word.            *)
(*   - Text (a Go string, a JSON literal) is a sequence of one-character   *)
(*     strings.  A JSON scalar is its literal token, e.g. <<"1","0">> for  *)
(*     the number 10 and <<"\"","a","\"">> for the string "a".  String     *)
(*     contents are drawn from an alphabet without the quote and the       *)
(*     backslash, so a string token is its content between two quotes.     *)
(*   - A time.Time without monotonic reading is [ext, nsec]: ext is the    *)
(*     int64 count of seconds since January 1, year 1, nsec the nanosecond *)
(*     part.  Equality of times is equality of instants (time.Time.Equal); *)
(*     the Location is not part of the model.                              *)
(***************************************************************************)
EXTENDS Integers, Sequences, FiniteSets, TLC

(***************************************************************************)
(* Decimal arithmetic on 64-bit words.                                     *)
(***************************************************************************)
Zero == <<0>>

Two32 == <<4,2,9,4,9,6,7,2,9,6>>

Two63 == <<9,2,2,3,3,7,2,0,3,6,8,5,4,7,7,5,8,0,8>>

Two64 == <<1,8,4,4,6,7,4,4,0,7,3,7,0,9,5,5,1,6,1,6>>

Two8 == <<2,5,6>>

RECURSIVE Norm(_)
Norm(d) == IF Len(d) > 1 /\ Head(d) = 0 THEN Norm(Tail(d)) ELSE d

RECURSIVE Rev(_)
Rev(s) == IF s = <<>> THEN <<>> ELSE Rev(Tail(s)) \o <<Head(s)>>

RECURSIVE PadTo(_, _)
PadTo(d, n) == IF Len(d) >= n THEN d ELSE PadTo(<<0>> \o d, n)

Less(a, b) ==
    \/ Len(a) < Len(b)
    \/ /\ Len(a) = Len(b)
       /\ \E i \in 1..Len(a) :
            /\ a[i] < b[i]
            /\ \A j \in 1..(i - 1) : a[j] = b[j]

RECURSIVE AddLE(_, _, _)
AddLE(x, y, c) ==
    IF x = <<>> THEN <<>>
    ELSE LET s == Head(x) + Head(y) + c
         IN  <<s % 10>> \o AddLE(Tail(x), Tail(y), s \div 10)

RECURSIVE SubLE(_, _, _)
SubLE(x, y, b) ==
    IF x = <<>> THEN <<>>
    ELSE LET s == Head(x) - Head(y) - b
         IN  <<(s + 10) % 10>> \o SubLE(Tail(x), Tail(y), IF s < 0 THEN 1 ELSE 0)

Add(a, b) ==
    LET n == (IF Len(a) > Len(b) THEN Len(a) ELSE Len(b)) + 1
    IN  Norm(Rev(AddLE(Rev(PadTo(a, n)), Rev(PadTo(b, n)), 0)))

\* a - b for a >= b
Sub(a, b) ==
    LET n == Len(a)
    IN  Norm(Rev(SubLE(Rev(a), Rev(PadTo(b, n)), 0)))

\* The low 64 bits of s < 2^65.
Low64(s) == IF Less(s, Two64) THEN s ELSE Sub(s, Two64)

\* Go's + on int64 / uint64: the sum modulo 2^64.
AddWrap(a, b) == Low64(Add(a, b))

\* Go's unary - on int64.
Neg64(a) == IF a = Zero THEN Zero ELSE Sub(Two64, a)

\* The sign of the int64 held in a word.
IsNeg(a) == ~Less(a, Two63)

(***************************************************************************)
(* Text and strconv.                                                       *)
(***************************************************************************)
DigitChars == <<"0", "1", "2", "3", "4", "5", "6", "7", "8", "9">>

IsDigit(c) == \E i \in 1..Len(DigitChars) : DigitChars[i] = c

DigitOf(c) == (CHOOSE i \in 1..Len(DigitChars) : DigitChars[i] = c) - 1

RECURSIVE ToDigits(_)
ToDigits(s) == IF s = <<>> THEN <<>> ELSE <<DigitOf(Head(s))>> \o ToDigits(Tail(s))

RECURSIVE ToChars(_)
ToChars(d) == IF d = <<>> THEN <<>> ELSE <<DigitChars[Head(d) + 1]>> \o ToChars(Tail(d))

\* The range check of ParseUint on the value n of the digits.
UintInRange(n) ==
    IF Less(n, Two64) THEN [err |-> "nil", n |-> n]
    ELSE [err |-> "ErrRange", n |-> Sub(Two64, <<1>>)]

\* strconv.ParseUint(s, 10, 64): [err, n].
ParseUint(s) ==
    IF s = <<>> THEN [err |-> "ErrSyntax", n |-> Zero]
    ELSE IF \E i \in 1..Len(s) : ~IsDigit(s[i]) THEN [err |-> "ErrSyntax", n |-> Zero]
    ELSE UintInRange(Norm(ToDigits(s)))

\* The cutoff and the sign of ParseInt, on the magnitude u ParseUint gave.
Signed(neg, u) ==
    IF u.err = "ErrSyntax" THEN [err |-> "ErrSyntax", n |-> Zero]
    ELSE IF ~neg /\ ~Less(u.n, Two63)
         THEN [err |-> "ErrRange", n |-> Sub(Two63, <<1>>)]
    ELSE IF neg /\ Less(Two63, u.n)
         THEN [err |-> "ErrRange", n |-> Two63]
    ELSE [err |-> "nil", n |-> IF neg THEN Neg64(u.n) ELSE u.n]

\* strconv.ParseInt(s, 10, 64): [err, n], n the two's complement word.
ParseInt(s) ==
    IF s = <<>> THEN [err |-> "ErrSyntax", n |-> Zero]
    ELSE Signed(Head(s) = "-",
                ParseUint(IF Head(s) \in {"+", "-"} THEN Tail(s) ELSE s))

\* strconv.AppendUint(b, n, 10)
FormatUint(n) == ToChars(n)

\* strconv.AppendInt(b, n, 10)
FormatInt(n) == IF IsNeg(n) THEN <<"-">> \o ToChars(Neg64(n)) ELSE ToChars(n)

\* 2^bits for the widths in use.
TwoPow(bits) == CASE bits = 8 -> Two8 [] bits = 32 -> Two32 [] bits = 64 -> Two64

\* reflect.Value.OverflowUint for an unsigned type of the given width.
OverflowUint(n, bits) == ~Less(n, TwoPow(bits))

(***************************************************************************)
(* package time: Unix(sec, nsec) and Time.Unix().                          *)
(***************************************************************************)
unixToInternal == <<6, 2, 1, 3, 5, 5, 9, 6, 8, 0, 0>>

internalToUnix == Neg64(unixToInternal)

\* time.Unix(sec, nsec) for 0 <= nsec < 1e9
time_Unix(sec, nsec) == [ext |-> AddWrap(sec, unixToInternal), nsec |-> nsec]

\* Time.Unix(): the second count; the nanosecond part is not consulted.
Time_Unix(t) == AddWrap(t.ext, internalToUnix)

(***************************************************************************)
(* JSON values.  A scalar is its literal token; an array holds values, an  *)
(* object holds members [k, v] in the order of the text.                   *)
(***************************************************************************)
JLit(lit) == [kind |-> "literal", lit |-> lit, elems |-> <<>>]

JArray(elems) == [kind |-> "array", lit |-> <<>>, elems |-> elems]

JObject(members) == [kind |-> "object", lit |-> <<>>, elems |-> members]

nullLiteral == <<"n", "u", "l", "l">>

trueLiteral == <<"t", "r", "u", "e">>

falseLiteral == <<"f", "a", "l", "s", "e">>

Quote(s) == <<"\"">> \o s \o <<"\"">>

UpperChars == <<"A", "B", "C", "D", "E", "F", "G", "H", "I", "J", "K", "L", "M",
                "N", "O", "P", "Q", "R", "S", "T", "U", "V", "W", "X", "Y", "Z">>

LowerChars == <<"a", "b", "c", "d", "e", "f", "g", "h", "i", "j", "k", "l", "m",
                "n", "o", "p", "q", "r", "s", "t", "u", "v", "w", "x", "y", "z">>

\* strings.ToLower on one character.
ToLower(c) ==
    IF \E i \in 1..Len(UpperChars) : UpperChars[i] = c
    THEN LowerChars[CHOOSE i \in 1..Len(UpperChars) : UpperChars[i] = c]
    ELSE c

\* A decoder that folds the case of a string's content, as a decoder that
\* normalised the status would.
UnquoteFolded(lit) == [i \in 1..(Len(lit) - 2) |-> ToLower(lit[i + 1])]

\* The content of a string token without escapes.
Unquote(lit) == SubSeq(lit, 2, Len(lit) - 1)

IsStringToken(lit) ==
    /\ Len(lit) >= 2
    /\ lit[1] = "\""
    /\ lit[Len(lit)] = "\""
    /\ \A i \in 2..(Len(lit) - 1) : lit[i] \notin {"\"", "\\"}

\* The scanner's number states (state0, state1, stateDot, ...).
RECURSIVE ScanNumber(_, _)
ScanNumber(s, state) ==
    IF s = <<>> THEN state \in {"0", "1", "dot0", "e0"}
    ELSE LET c == Head(s)
             next ==
                CASE state = "begin" /\ c = "-" -> "neg"
                  [] state \in {"begin", "neg"} /\ c = "0" -> "0"
                  [] state \in {"begin", "neg", "1"} /\ IsDigit(c) /\ c # "0" -> "1"
                  [] state = "1" /\ c = "0" -> "1"
                  [] state \in {"0", "1"} /\ c = "." -> "dot"
                  [] state \in {"dot", "dot0"} /\ IsDigit(c) -> "dot0"
                  [] state \in {"0", "1", "dot0"} /\ c \in {"e", "E"} -> "e"
                  [] state = "e" /\ c \in {"+", "-"} -> "esign"
                  [] state \in {"e", "esign", "e0"} /\ IsDigit(c) -> "e0"
                  [] OTHER -> "error"
         IN  next # "error" /\ ScanNumber(Tail(s), next)

\* json.checkValid on the model's values.
RECURSIVE checkValid(_)
checkValid(j) ==
    CASE j.kind = "literal" ->
            \/ j.lit \in {nullLiteral, trueLiteral, falseLiteral}
            \/ IsStringToken(j.lit)
            \/ ScanNumber(j.lit, "begin")
      [] j.kind = "array" -> \A i \in 1..Len(j.elems) : checkValid(j.elems[i])
      [] j.kind = "object" -> \A i \in 1..Len(j.elems) : checkValid(j.elems[i].v)

(***************************************************************************)
(* Go types, as encoding/json sees them through reflection.                *)
(*   kind: "string" | "bool" | "uint" | "int" | "slice" | "struct"         *)
(*   sub : the element type of a slice (one entry), the fields of a struct *)
(* A field is [name, wire, type, tag]: the Go name, the spelling the       *)
(* remote service uses for the key (equal to the Go name up to case, which *)
(* is how encoding/json matches keys), and the options of the json tag.    *)
(***************************************************************************)
Ty(kind, name, bits, sub) == [kind |-> kind, name |-> name, bits |-> bits, sub |-> sub]

Field(name, wire, type, tag) == [name |-> name, wire |-> wire, type |-> type, tag |-> tag]

T_string == Ty("string", "string", 0, <<>>)

T_bool == Ty("bool", "bool", 0, <<>>)

T_int64 == Ty("int", "int64", 64, <<>>)

\* uint: 32 or 64 bits wide, as the platform has it.
T_uint(intSize) == Ty("uint", "uint", intSize, <<>>)

T_slice(elem) == Ty("slice", "slice", 0, <<elem>>)

T_DownloadStatus == Ty("string", "DownloadStatus", 0, <<>>)

T_TorrentMode == Ty("string", "TorrentMode", 0, <<>>)

\* ExitStatus is declared in another file of the package: an unsigned
\* integer error code whose zero value means "no error".
T_ExitStatus == Ty("uint", "ExitStatus", 8, <<>>)

\* File and URI are declared in another file of the package; the model
\* holds only nil and empty slices of them.
T_File == Ty("struct", "File", 0, <<>>)

T_URI == Ty("struct", "URI", 0, <<>>)

T_UNIXTime == Ty("struct", "UNIXTime", 0, <<>>)

T_BitTorrentStatusInfo ==
    Ty("struct", "BitTorrentStatusInfo", 0, <<Field("Name", "name", T_string, "")>>)

T_BitTorrentStatus ==
    Ty("struct", "BitTorrentStatus", 0,
       << Field("AnnounceList", "announceList", T_slice(T_URI), ""),
          Field("Comment", "comment", T_string, ""),
          Field("CreationDateUNIX", "creationDateUNIX", T_UNIXTime, "string"),
          Field("Mode", "mode", T_TorrentMode, ""),
          Field("Info", "info", T_BitTorrentStatusInfo, "") >>)

T_Status(intSize) ==
    Ty("struct", "Status", 0,
       << Field("GID", "gid", T_string, ""),
          Field("Status", "status", T_DownloadStatus, ""),
          Field("TotalLength", "totalLength", T_uint(intSize), "string"),
          Field("CompletedLength", "completedLength", T_uint(intSize), "string"),
          Field("UploadLength", "uploadLength", T_uint(intSize), "string"),
          Field("BitField", "bitfield", T_string, ""),
          Field("DownloadSpeed", "downloadSpeed", T_uint(intSize), "string"),
          Field("UploadSpeed", "uploadSpeed", T_uint(intSize), "string"),
          Field("InfoHash", "infoHash", T_string, ""),
          Field("NumSeeders", "numSeeders", T_uint(intSize), "string"),
          Field("Seeder", "seeder", T_bool, "string"),
          Field("PieceLength", "pieceLength", T_uint(intSize), "string"),
          Field("NumPieces", "numPieces", T_uint(intSize), "string"),
          Field("Connections", "connections", T_uint(intSize), "string"),
          Field("ErrorCode", "errorCode", T_ExitStatus, "string"),
          Field("ErrorMessage", "errorMessage", T_string, ""),
          Field("FollowedBy", "followedBy", T_slice(T_string), ""),
          Field("Following", "following", T_string, ""),
          Field("BelongsTo", "belongsTo", T_string, ""),
          Field("Dir", "dir", T_string, ""),
          Field("Files", "files", T_slice(T_File), ""),
          Field("BitTorrent", "bittorrent", T_BitTorrentStatus, ""),
          Field("VerifiedLength", "verifiedLength", T_uint(intSize), "string"),
          Field("VerifyIntegrityPending", "verifyIntegrityPending", T_bool, "string") >>)

\* The ",string" option takes effect only on fields of string, integer,
\* floating point or boolean kind; on any other field it is ignored.
\* Field tags without the ",string" option.
QuotedNever(f) == FALSE

Quoted(f) == f.tag = "string" /\ f.type.kind \in {"string", "bool", "int", "uint"}

\* The types with a MarshalJSON / UnmarshalJSON method in status.go.
HasMarshalJSON(t) == t.name = "UNIXTime"

\* UNIXTime without its UnmarshalJSON method: the decoder sees a plain struct.
HasUnmarshalJSONNone(t) == FALSE

HasUnmarshalJSON(t) == t.name = "UNIXTime"

FieldNames(t) == {t.sub[i].name : i \in 1..Len(t.sub)}

FieldNamed(t, n) == t.sub[CHOOSE i \in 1..Len(t.sub) : t.sub[i].name = n]

\* Index of the field a key of the text selects, 0 when there is none.
FieldIndex(t, key) ==
    IF \E i \in 1..Len(t.sub) : key \in {t.sub[i].name, t.sub[i].wire}
    THEN CHOOSE i \in 1..Len(t.sub) : key \in {t.sub[i].name, t.sub[i].wire}
    ELSE 0

NilSlice == [nil |-> TRUE, elems |-> <<>>]

MakeSlice(elems) == [nil |-> FALSE, elems |-> elems]

\* The zero time.Time: January 1, year 1, 00:00:00 UTC.
ZeroTime == [ext |-> Zero, nsec |-> 0]

RECURSIVE ZeroOf(_)
ZeroOf(t) ==
    CASE t.kind = "string" -> <<>>
      [] t.kind = "bool" -> FALSE
      [] t.kind \in {"int", "uint"} -> Zero
      [] t.kind = "slice" -> NilSlice
      [] t.kind = "struct" /\ t.name = "UNIXTime" -> ZeroTime
      [] t.kind = "struct" /\ t.name # "UNIXTime" ->
            [n \in FieldNames(t) |-> ZeroOf(FieldNamed(t, n).type)]

(***************************************************************************)
(* Decoding.  A decoding step yields [val, err, abort]: the destination    *)
(* after the step, the error ("nil" when none), and whether the error was  *)
(* returned at once (abort) or saved while decoding went on (d.saveError). *)
(* json.Unmarshal reports the returned error, else the first saved one.    *)
(***************************************************************************)
ErrSyntax == "json.SyntaxError"

ErrType == "json.UnmarshalTypeError"

ErrStringTag == "json: invalid use of ,string struct tag"

R(val, err, abort) == [val |-> val, err |-> err, abort |-> abort]

FirstErr(saved, err) == IF saved = "nil" THEN err ELSE saved

\* The number case of literalStore for an unsigned destination.
StoreUint(p, t, cur) ==
    IF p.err # "nil" \/ OverflowUint(p.n, t.bits) THEN R(cur, ErrType, FALSE)
    ELSE R(p.n, "nil", FALSE)

\* The number case of literalStore for an int64 destination.
StoreInt(p, cur) ==
    IF p.err # "nil" THEN R(cur, ErrType, FALSE) ELSE R(p.n, "nil", FALSE)

\* The switch of decodeState.literalStore on the first byte c of the token,
\* for a destination that is no Unmarshaler.
literalStoreCase(c, item, t, cur, fromQuoted) ==
      CASE c = "n" ->
             IF fromQuoted /\ item # nullLiteral THEN R(cur, ErrStringTag, FALSE)
             ELSE IF t.kind = "slice" THEN R(NilSlice, "nil", FALSE)
             ELSE R(cur, "nil", FALSE)
        [] c \in {"t", "f"} ->
             IF fromQuoted /\ item \notin {trueLiteral, falseLiteral}
             THEN R(cur, ErrStringTag, FALSE)
             ELSE IF t.kind = "bool" THEN R(c = "t", "nil", FALSE)
             ELSE R(cur, IF fromQuoted THEN ErrStringTag ELSE ErrType, FALSE)
        [] c = "\"" ->
             IF ~IsStringToken(item) THEN R(cur, ErrStringTag, TRUE)
             ELSE IF t.kind = "string" THEN R(Unquote(item), "nil", FALSE)
             ELSE R(cur, ErrType, FALSE)
        [] OTHER ->
             IF c # "-" /\ ~IsDigit(c) THEN R(cur, ErrStringTag, TRUE)
             ELSE CASE t.kind = "uint" -> StoreUint(ParseUint(item), t, cur)
                    [] t.kind = "int" -> StoreInt(ParseInt(item), cur)
                    [] OTHER ->
                         IF fromQuoted THEN R(cur, ErrStringTag, TRUE)
                         ELSE R(cur, ErrType, FALSE)

literalStoreKind(item, t, cur, fromQuoted) ==
    literalStoreCase(Head(item), item, t, cur, fromQuoted)

\* What json.Unmarshal reports of a decoding step: the destination and the
\* error, returned or saved.
Outcome(r) == [val |-> r.val, err |-> r.err]

\* json.Unmarshal(data, &ts) for ts of type int64 holding cur: [val, err].
\* An array or an object cannot be stored in an int64.
UnmarshalInt64(data, cur) ==
    IF ~checkValid(data) THEN [val |-> cur, err |-> ErrSyntax]
    ELSE IF data.kind # "literal" THEN [val |-> cur, err |-> ErrType]
    ELSE Outcome(literalStoreKind(data.lit, T_int64, cur, FALSE))

\* The statements of UnmarshalJSON after json.Unmarshal gave r = [val, err]:
\*     if err != nil { return err }
\*     *t = UNIXTime{time.Unix(ts, 0)}; return nil
StoreUnixTime(t, r) ==
    IF r.err # "nil" THEN [t |-> t, err |-> r.err]
    ELSE [t |-> time_Unix(r.val, 0), err |-> "nil"]

\* func (t *UNIXTime) UnmarshalJSON(data []byte) error: [t, err].
\*     var ts int64; err := json.Unmarshal(data, &ts); ...
UnmarshalJSON(t, data) == StoreUnixTime(t, UnmarshalInt64(data, Zero))

\* The decoder's use of an Unmarshaler: its error is returned at once.
FromUnmarshaler(u) == R(u.t, u.err, u.err # "nil")

\* decodeState.literalStore(item, v, fromQuoted)
literalStore(item, t, cur, fromQuoted) ==
    IF item = <<>> THEN R(cur, ErrStringTag, FALSE)
    ELSE IF HasUnmarshalJSON(t) THEN FromUnmarshaler(UnmarshalJSON(cur, JLit(item)))
    ELSE literalStoreKind(item, t, cur, fromQuoted)

RECURSIVE value(_, _, _)
RECURSIVE DecodeElems(_, _, _, _)
RECURSIVE DecodeMembers(_, _, _, _)

\* decodeState.value / array / object on one value of the text.
value(t, j, cur) ==
    CASE j.kind = "literal" -> literalStore(j.lit, t, cur, FALSE)
      [] j.kind \in {"array", "object"} /\ HasUnmarshalJSON(t) ->
             FromUnmarshaler(UnmarshalJSON(cur, j))
      [] j.kind = "array" /\ ~HasUnmarshalJSON(t) ->
             IF t.kind = "slice" THEN DecodeElems(t.sub[1], j.elems, <<>>, "nil")
             ELSE R(cur, ErrType, FALSE)
      [] j.kind = "object" /\ ~HasUnmarshalJSON(t) ->
             IF t.kind = "struct" THEN DecodeMembers(t, j.elems, cur, "nil")
             ELSE R(cur, ErrType, FALSE)

\* The slice after its next element was decoded with result r.
ElemStored(acc, saved, r) == R(acc \o <<r.val>>, FirstErr(saved, r.err), r.abort)

\* The element loop of decodeState.array into a slice; st = [val, err, abort]
\* holds the elements stored so far.
RECURSIVE ElemLoop(_, _, _)
ElemLoop(et, elems, st) ==
    IF st.abort \/ elems = <<>> THEN R(MakeSlice(st.val), st.err, st.abort)
    ELSE ElemLoop(et, Tail(elems),
                  ElemStored(st.val, st.err, value(et, Head(elems), ZeroOf(et))))

DecodeElems(et, elems, acc, saved) == ElemLoop(et, elems, R(acc, saved, FALSE))

\* decodeState.object on the value v of a member that selects field f: a
\* quoted field takes null or the content of a string token.
MemberValue(f, v, cur) ==
    IF Quoted(f)
    THEN IF v.kind = "literal" /\ v.lit = nullLiteral
         THEN literalStore(nullLiteral, f.type, cur, FALSE)
         ELSE IF v.kind = "literal" /\ v.lit # <<>> /\ Head(v.lit) = "\""
         THEN literalStore(Unquote(v.lit), f.type, cur, TRUE)
         ELSE R(cur, ErrStringTag, FALSE)
    ELSE value(f.type, v, cur)

\* The struct after field n was decoded with result r; a returned error
\* (abort) takes the place of the saved one.
FieldStored(cur, saved, n, r) ==
    R([cur EXCEPT ![n] = r.val], IF r.abort THEN r.err ELSE FirstErr(saved, r.err), r.abort)

\* One turn of the member loop of decodeState.object: member m into the
\* struct st.val of type t; a key that selects no field is skipped.
MemberField(t, i, m, st) ==
    IF i = 0 THEN st
    ELSE FieldStored(st.val, st.err, t.sub[i].name,
                     MemberValue(t.sub[i], m.v, st.val[t.sub[i].name]))

MemberStep(t, m, st) == MemberField(t, FieldIndex(t, m.k), m, st)

\* The member loop of decodeState.object into a struct.
RECURSIVE MemberLoop(_, _, _)
MemberLoop(t, members, st) ==
    IF st.abort \/ members = <<>> THEN st
    ELSE MemberLoop(t, Tail(members), MemberStep(t, Head(members), st))

DecodeMembers(t, members, cur, saved) == MemberLoop(t, members, R(cur, saved, FALSE))

\* json.Unmarshal(data, &v) for v of struct type t holding cur: [val, err].
Unmarshal(data, t, cur) ==
    IF ~checkValid(data) THEN [val |-> cur, err |-> ErrSyntax]
    ELSE Outcome(value(t, data, cur))

(***************************************************************************)
(* Encoding.  None of the values of the model makes json.Marshal fail.     *)
(***************************************************************************)
RECURSIVE encode(_, _, _)
RECURSIVE EncodeElems(_, _)
RECURSIVE EncodeFields(_, _, _)

\* json.Marshal(v) for an int64
MarshalInt64(n) == JLit(FormatInt(n))

\* MarshalJSON writing the seconds as a JSON string.
MarshalJSONQuoted(t) == JLit(Quote(FormatInt(Time_Unix(t))))

\* MarshalJSON rounding to the nearest second: t.Round(time.Second).Unix().
MarshalJSONRounded(t) ==
    MarshalInt64(IF t.nsec >= 500000000 THEN AddWrap(Time_Unix(t), <<1>>) ELSE Time_Unix(t))

\* func (t UNIXTime) MarshalJSON() ([]byte, error)
MarshalJSON(t) == MarshalInt64(Time_Unix(t))

\* An encoder that leaves the ",string" option out.
QuotedLiteralBare(quoted, lit) == JLit(lit)

\* The literal of a boolean or a number, between quotes under ",string".
QuotedLiteral(quoted, lit) == JLit(IF quoted THEN Quote(lit) ELSE lit)

\* The encoder of a value of type t; quoted is the field's ",string".  No
\* field of status.go puts ",string" on a string.
encode(t, quoted, v) ==
    CASE HasMarshalJSON(t) -> MarshalJSON(v)
      [] ~HasMarshalJSON(t) /\ t.kind = "string" -> JLit(Quote(v))
      [] t.kind = "bool" -> QuotedLiteral(quoted, IF v THEN trueLiteral ELSE falseLiteral)
      [] t.kind = "uint" -> QuotedLiteral(quoted, FormatUint(v))
      [] t.kind = "int" -> QuotedLiteral(quoted, FormatInt(v))
      [] t.kind = "slice" ->
            IF v.nil THEN JLit(nullLiteral) ELSE JArray(EncodeElems(t.sub[1], v.elems))
      [] ~HasMarshalJSON(t) /\ t.kind = "struct" ->
            JObject(EncodeFields(t, 1, v))

EncodeElems(et, elems) ==
    IF elems = <<>> THEN <<>>
    ELSE <<encode(et, FALSE, Head(elems))>> \o EncodeElems(et, Tail(elems))

\* The fields of a struct in declaration order, each under its Go name.
EncodeFields(t, i, v) ==
    IF i > Len(t.sub) THEN <<>>
    ELSE LET f == t.sub[i]
         IN  <<[k |-> f.name, v |-> encode(f.type, Quoted(f), v[f.name])]>>
             \o EncodeFields(t, i + 1, v)

\* json.Marshal(v) for v of type t
Marshal(t, v) == encode(t, FALSE, v)

(***************************************************************************)
(* The values of status.go's constants.                                    *)
(***************************************************************************)
StatusActive == <<"a", "c", "t", "i", "v", "e">>

StatusWaiting == <<"w", "a", "i", "t", "i", "n", "g">>

StatusPaused == <<"p", "a", "u", "s", "e", "d">>

StatusError == <<"e", "r", "r", "o", "r">>

StatusCompleted == <<"c", "o", "m", "p", "l", "e", "t", "e", "d">>

StatusRemoved == <<"r", "e", "m", "o", "v", "e", "d">>

DownloadStatuses ==
    {StatusActive, StatusWaiting, StatusPaused, StatusError, StatusCompleted, StatusRemoved}

TorrentModeSingle == <<"s", "i", "n", "g", "l", "e">>

TorrentModeMulti == <<"m", "u", "l", "t", "i">>

TorrentModes == {TorrentModeSingle, TorrentModeMulti}

\* The Status fields of type uint tagged `json:",string"`.
StringUintFields ==
    {"TotalLength", "CompletedLength", "UploadLength", "DownloadSpeed", "UploadSpeed",
     "NumSeeders", "PieceLength", "NumPieces", "Connections", "VerifiedLength"}

(***************************************************************************)
(* Bounds and the inputs drawn within them.                                *)
(***************************************************************************)
\* Longest generated text (number literals, contents of string tokens).
MaxLen == 2

\* Longest FollowedBy list of a Status value.
MaxFollowedBy == 1

\* Number of concurrent decodes.
NumGoroutines == 2

RECURSIVE TextsOfLen(_, _)
TextsOfLen(A, n) ==
    IF n = 0 THEN {<<>>}
    ELSE {<<c>> \o s : c \in A, s \in TextsOfLen(A, n - 1)}

TextsUpTo(A, n) == UNION {TextsOfLen(A, k) : k \in 0..n}

MaxInt64Text == ToChars(Sub(Two63, <<1>>))

MaxUint32Text == ToChars(Sub(Two32, <<1>>))

MaxUint64Text == ToChars(Sub(Two64, <<1>>))

\* Canonical decimal texts of int64 second counts: small ones, the extremes,
\* the zero time.Time, and the two counts around which sec + unixToInternal
\* passes the top of the int64 range.
Int64Texts ==
    { <<"0">>, <<"1">>, <<"-", "1">>, <<"-", "1", "0">>,
      ToChars(<<1, 5, 0, 0, 0, 0, 0, 0, 0, 0>>),
      <<"-">> \o ToChars(unixToInternal),
      MaxInt64Text,
      <<"-">> \o ToChars(Two63),
      ToChars(Sub(Sub(Two63, <<1>>), unixToInternal)),
      ToChars(Sub(Two63, unixToInternal)) }

\* Literal tokens handed to UNIXTime.UnmarshalJSON besides the generated ones.
OtherTimeLiterals ==
    { nullLiteral, trueLiteral, falseLiteral,
      Quote(ToChars(<<1, 5, 0, 0, 0, 0, 0, 0, 0, 0>>)), Quote(<<>>),
      <<"1", ".", "5">>, <<"1", ".", "0">>, <<"1", "e", "3">>, <<"-", "0">>,
      <<"0", "1">>, <<"+", "1">>, <<"a", "b", "c">>,
      ToChars(Two63), <<"-">> \o ToChars(Add(Two63, <<1>>)) }

TimeWireValues ==
    {JLit(x) : x \in Int64Texts \cup OtherTimeLiterals
                       \cup TextsUpTo({"0", "7", "-", "."}, MaxLen)}
    \cup {JArray(<<>>), JArray(<<JLit(<<"1">>)>>), JObject(<<>>)}

NsecSamples == {0, 500000000, 999999999}

TimeValues == {time_Unix(ParseInt(x).n, ns) : x \in Int64Texts, ns \in NsecSamples}

\* Contents of the string token sent for a string-encoded numeric field.
NumericTexts(intSize) ==
    TextsUpTo({"0", "1", "9", "a", "-"}, MaxLen)
    \cup { <<"1", "0", "0", "0">>, <<"5", "0", "0">>, <<"0", "0", "7">>, <<"a", "b", "c">>,
           nullLiteral, trueLiteral, <<"1", ".", "5">>, <<"1", "e", "3">>, <<"+", "1">>,
           MaxUint32Text, ToChars(Two32), MaxUint64Text, ToChars(Two64) }

\* What the wire may hold for such a field: string tokens, and the shapes
\* that are not strings.
NumericWireValues(intSize) ==
    {JLit(Quote(x)) : x \in NumericTexts(intSize)}
    \cup {JLit(<<"1", "0", "0", "0">>), JLit(nullLiteral), JLit(trueLiteral), JArray(<<>>)}

EnumTexts ==
    DownloadStatuses \cup TorrentModes
    \cup { <<"b", "o", "g", "u", "s">>, <<"A", "c", "t", "i", "v", "e">>,
           <<"A", "C", "T", "I", "V", "E">>, <<"S", "i", "n", "g", "l", "e">>, <<>> }

Member(k, v) == [k |-> k, v |-> v]

JStr(s) == JLit(Quote(s))

\* The value of the member of object j that selects field f, JLit(<<>>)
\* (no token) when the object has none.
Lookup(j, f) ==
    IF \E i \in 1..Len(j.elems) : j.elems[i].k \in {f.name, f.wire}
    THEN j.elems[CHOOSE i \in 1..Len(j.elems) : j.elems[i].k \in {f.name, f.wire}].v
    ELSE JLit(<<>>)

RECURSIVE WithMember(_, _, _)
WithMember(members, k, v) ==
    IF members = <<>> THEN <<>>
    ELSE <<IF Head(members).k = k THEN Member(k, v) ELSE Head(members)>>
         \o WithMember(Tail(members), k, v)

\* A status response as the remote service sends it, keys in its spelling.
BaseBitTorrent ==
    << Member("announceList", JArray(<<>>)),
       Member("comment", JStr(<<"c">>)),
       Member("creationDateUNIX", JLit(ToChars(<<1, 5, 0, 0, 0, 0, 0, 0, 0, 0>>))),
       Member("mode", JStr(TorrentModeSingle)),
       Member("info", JObject(<<Member("name", JStr(<<"n">>))>>)) >>

BaseMessage ==
    << Member("gid", JStr(<<"2", "0", "8", "9", "b", "0", "5", "e">>)),
       Member("status", JStr(StatusActive)),
       Member("totalLength", JStr(<<"1", "0", "0", "0">>)),
       Member("completedLength", JStr(<<"5", "0", "0">>)),
       Member("uploadLength", JStr(<<"0">>)),
       Member("bitfield", JStr(<<"f", "0">>)),
       Member("downloadSpeed", JStr(<<"7">>)),
       Member("uploadSpeed", JStr(<<"8">>)),
       Member("infoHash", JStr(<<"a", "b">>)),
       Member("numSeeders", JStr(<<"3">>)),
       Member("seeder", JStr(trueLiteral)),
       Member("pieceLength", JStr(<<"1", "6">>)),
       Member("numPieces", JStr(<<"6", "3">>)),
       Member("connections", JStr(<<"2">>)),
       Member("errorCode", JStr(<<"0">>)),
       Member("errorMessage", JStr(<<>>)),
       Member("followedBy", JArray(<<>>)),
       Member("following", JStr(<<>>)),
       Member("belongsTo", JStr(<<>>)),
       Member("dir", JStr(<<"d">>)),
       Member("files", JArray(<<>>)),
       Member("bittorrent", JObject(BaseBitTorrent)),
       Member("verifiedLength", JStr(<<"4">>)),
       Member("verifyIntegrityPending", JStr(falseLiteral)) >>

WireOf(t, n) == FieldNamed(t, n).wire

\* Messages that differ from the base one in one string-encoded numeric field.
NumericMessages(intSize) ==
    {JObject(WithMember(BaseMessage, WireOf(T_Status(intSize), n), w)) :
        n \in StringUintFields, w \in NumericWireValues(intSize)}

\* Messages that differ in the status and the mode.
EnumMessages ==
    {JObject(WithMember(WithMember(BaseMessage, "status", JStr(s)), "bittorrent",
                        JObject(WithMember(BaseBitTorrent, "mode", JStr(m))))) :
        s \in EnumTexts, m \in {TorrentModeSingle, TorrentModeMulti,
                                 <<"b", "o", "g", "u", "s">>, <<"M", "u", "l", "t", "i">>}}

\* The message of the end-to-end scenario.
ScenarioMessage ==
    JObject(<< Member("totalLength", JStr(<<"1", "0", "0", "0">>)),
               Member("completedLength", JStr(<<"5", "0", "0">>)),
               Member("status", JStr(StatusActive)) >>)

LengthTexts == {<<"0">>, <<"5", "0", "0">>, <<"1", "0", "0", "0">>, <<"2", "0", "0", "0">>}

\* Messages that differ in totalLength and completedLength.
LengthMessages ==
    {JObject(WithMember(WithMember(BaseMessage, "totalLength", JStr(a)),
                        "completedLength", JStr(b))) : a \in LengthTexts, b \in LengthTexts}

\* Messages that differ in the creation date, the seeder flag or the lists.
OtherMessages ==
    {JObject(WithMember(BaseMessage, "bittorrent",
                        JObject(WithMember(BaseBitTorrent, "creationDateUNIX", w)))) :
        w \in {JLit(x) : x \in Int64Texts} \cup {JStr(x) : x \in Int64Texts}
              \cup {JLit(nullLiteral), JLit(<<"1", ".", "5">>)}}
    \cup {JObject(WithMember(BaseMessage, "seeder", w)) :
        w \in {JStr(falseLiteral), JStr(nullLiteral), JStr(<<"T", "r", "u", "e">>),
               JLit(trueLiteral), JLit(nullLiteral)}}
    \cup {JObject(WithMember(BaseMessage, "followedBy", w)) :
        w \in {JLit(nullLiteral), JArray(<<JStr(<<"g">>)>>), JArray(<<JLit(<<"1">>)>>),
               JStr(<<"g">>)}}
    \cup {JObject(<<>>), JLit(nullLiteral), ScenarioMessage,
          JObject(<<Member("TotalLength", JStr(<<"1", "0", "0", "0">>)),
                    Member("unknownKey", JLit(<<"1">>)),
                    Member("Status", JStr(StatusWaiting))>>)}

StatusMessages(intSize) ==
    NumericMessages(intSize) \cup EnumMessages \cup LengthMessages \cup OtherMessages

GIDs == {<<"g", "1">>, <<"g", "2">>}

RECURSIVE SeqsUpTo(_, _)
SeqsUpTo(S, n) ==
    IF n = 0 THEN {<<>>}
    ELSE SeqsUpTo(S, n - 1) \cup {<<x>> \o s : x \in S, s \in TextsOfLen(S, n - 1)}

FollowedByValues == {NilSlice} \cup {MakeSlice(s) : s \in SeqsUpTo(GIDs, MaxFollowedBy)}

UintValues(intSize) == {Zero, <<1, 0, 0, 0>>, Sub(TwoPow(intSize), <<1>>)}

\* Status values built from valid field values.
BaseStatus(intSize) ==
    [ZeroOf(T_Status(intSize)) EXCEPT
        !.GID = <<"g", "0">>, !.Status = StatusPaused,
        !.CompletedLength = <<5, 0, 0>>, !.UploadLength = <<1>>,
        !.BitField = <<"f", "f", "8", "0">>, !.DownloadSpeed = <<2>>, !.UploadSpeed = <<3>>,
        !.InfoHash = <<"<", "a", ">">>, !.NumSeeders = <<4>>, !.PieceLength = <<5>>,
        !.NumPieces = <<6>>, !.Connections = <<7>>, !.ErrorCode = <<1, 3>>,
        !.ErrorMessage = <<"e", " ", "m">>, !.Following = <<"g", "9">>,
        !.BelongsTo = <<"g", "8">>, !.Dir = <<"/", "d">>, !.VerifiedLength = <<8>>,
        !.BitTorrent.Comment = <<"c">>, !.BitTorrent.Info.Name = <<"n">>]

StatusValues(intSize) ==
    { [BaseStatus(intSize) EXCEPT
          !.Seeder = b, !.VerifyIntegrityPending = ~b,
          !.FollowedBy = MakeSlice(<<>>), !.Files = MakeSlice(<<>>),
          !.BitTorrent.CreationDateUNIX = tv, !.BitTorrent.Mode = TorrentModeMulti] :
        b \in BOOLEAN, tv \in TimeValues }
    \cup
    { [BaseStatus(intSize) EXCEPT
          !.Status = s, !.TotalLength = n, !.VerifiedLength = n,
          !.FollowedBy = fb, !.Files = fl, !.BitTorrent.AnnounceList = fl,
          !.BitTorrent.Mode = TorrentModeSingle] :
        s \in DownloadStatuses, n \in UintValues(intSize),
        fb \in FollowedByValues, fl \in {NilSlice, MakeSlice(<<>>)} }
    \cup {ZeroOf(T_Status(intSize))}

(***************************************************************************)
(* State.  A client holds a text (data) and a destination (status, or ut   *)
(* for a bare UNIXTime) and calls json.Unmarshal / json.Marshal, or the    *)
(* two UNIXTime methods, on them.  data0, status0 and ut0 keep what the    *)
(* client started from.  The g* variables are the goroutines of the        *)
(* concurrent decodes: each has its own text, destination and locals.      *)
(***************************************************************************)
VARIABLES intSize, pc, data, data0, status, status0, ut, ut0, err,
          gpc, gjob, gdata, gts, gerr, gut, gstatus, gpos, gsaved, gret

seqVars == <<pc, data, data0, status, status0, ut, ut0, err>>

goVars == <<gpc, gjob, gdata, gts, gerr, gut, gstatus, gpos, gsaved, gret>>

vars == <<intSize, pc, data, data0, status, status0, ut, ut0, err,
          gpc, gjob, gdata, gts, gerr, gut, gstatus, gpos, gsaved, gret>>

NoData == JLit(<<>>)

Goroutines == 1..NumGoroutines

\* The instant a UNIXTime destination holds before a decode.
PriorTime == time_Unix(<<7>>, 0)

GoIdle ==
    /\ gpc = [g \in Goroutines |-> "idle"]
    /\ gjob = [g \in Goroutines |-> "none"]
    /\ gdata = [g \in Goroutines |-> NoData]
    /\ gts = [g \in Goroutines |-> Zero]
    /\ gerr = [g \in Goroutines |-> "nil"]
    /\ gut = [g \in Goroutines |-> PriorTime]
    /\ gstatus = [g \in Goroutines |-> ZeroOf(T_Status(intSize))]
    /\ gpos = [g \in Goroutines |-> 1]
    /\ gsaved = [g \in Goroutines |-> "nil"]
    /\ gret = [g \in Goroutines |-> "none"]

SeqIdle ==
    /\ pc = "idle"
    /\ data = NoData /\ data0 = NoData
    /\ status = ZeroOf(T_Status(intSize)) /\ status0 = ZeroOf(T_Status(intSize))
    /\ ut = PriorTime /\ ut0 = PriorTime
    /\ err = "nil"

\* The client received a status response.
InitWire ==
    /\ pc = "wire"
    /\ data \in StatusMessages(intSize) /\ data0 = data
    /\ status = ZeroOf(T_Status(intSize)) /\ status0 = status
    /\ ut = PriorTime /\ ut0 = ut

\* The client built a Status.
InitValue ==
    /\ pc = "value"
    /\ data = NoData /\ data0 = data
    /\ status \in StatusValues(intSize) /\ status0 = status
    /\ ut = PriorTime /\ ut0 = ut

\* The client holds the text of a timestamp.
InitTimeWire ==
    /\ pc = "twire"
    /\ data \in TimeWireValues /\ data0 = data
    /\ status = ZeroOf(T_Status(intSize)) /\ status0 = status
    /\ ut = PriorTime /\ ut0 = ut

\* The client holds a UNIXTime.
InitTimeValue ==
    /\ pc = "tvalue"
    /\ data = NoData /\ data0 = data
    /\ status = ZeroOf(T_Status(intSize)) /\ status0 = status
    /\ ut \in TimeValues /\ ut0 = ut

Init ==
    /\ intSize \in {32, 64}
    /\ err = "nil"
    /\ InitWire \/ InitValue \/ InitTimeWire \/ InitTimeValue
    /\ GoIdle

\* var s Status; err := json.Unmarshal(data, &s)
UnmarshalStatus ==
    /\ pc \in {"wire", "encoded"}
    /\ \E r \in {Unmarshal(data, T_Status(intSize), ZeroOf(T_Status(intSize)))} :
           /\ status' = r.val
           /\ err' = r.err
    /\ pc' = IF pc = "wire" THEN "decoded" ELSE "redecoded"
    /\ UNCHANGED <<intSize, data, data0, status0, ut, ut0>>
    /\ UNCHANGED goVars

\* data, err := json.Marshal(s)
MarshalStatus ==
    /\ pc \in {"value", "decoded"}
    /\ err = "nil"
    /\ data' = Marshal(T_Status(intSize), status)
    /\ pc' = IF pc = "value" THEN "encoded" ELSE "reencoded"
    /\ UNCHANGED <<intSize, data0, status, status0, ut, ut0, err>>
    /\ UNCHANGED goVars

\* err := t.UnmarshalJSON(data)
UNIXTimeUnmarshalJSON ==
    /\ pc \in {"twire", "tencoded"}
    /\ \E r \in {UnmarshalJSON(ut, data)} :
           /\ ut' = r.t
           /\ err' = r.err
    /\ pc' = IF pc = "twire" THEN "tdecoded" ELSE "tredecoded"
    /\ UNCHANGED <<intSize, data, data0, status, status0, ut0>>
    /\ UNCHANGED goVars

\* data, err := t.MarshalJSON()
UNIXTimeMarshalJSON ==
    /\ pc \in {"tvalue", "tdecoded"}
    /\ err = "nil"
    /\ data' = MarshalJSON(ut)
    /\ pc' = IF pc = "tvalue" THEN "tencoded" ELSE "treencoded"
    /\ UNCHANGED <<intSize, data0, status, status0, ut, ut0, err>>
    /\ UNCHANGED goVars

Next ==
    \/ UnmarshalStatus
    \/ MarshalStatus
    \/ UNIXTimeUnmarshalJSON
    \/ UNIXTimeMarshalJSON

Spec == Init /\ [][Next]_vars

(***************************************************************************)
(* Concurrent decodes.  Goroutine g runs either t.UnmarshalJSON(data) on   *)
(* its own UNIXTime, statement by statement, or json.Unmarshal(data, &s)   *)
(* on its own Status, one member of the object per step.  Each call has    *)
(* its own locals: ts and err of UnmarshalJSON, the position and the saved *)
(* error of the decoder.                                                   *)
(***************************************************************************)
TimeJobs ==
    {[kind |-> "UNIXTime", data |-> w] :
        w \in {JLit(<<"5">>), JLit(<<"-", "1">>), JLit(nullLiteral), JStr(<<"5">>)}}

StatusJobs ==
    {[kind |-> "Status", data |-> JObject(m)] :
        m \in { << Member("totalLength", JStr(<<"1", "0", "0", "0">>)),
                   Member("completedLength", JStr(<<"5", "0", "0">>)),
                   Member("status", JStr(StatusActive)) >>,
                << Member("totalLength", JStr(<<"7">>)),
                   Member("completedLength", JStr(<<"a", "b", "c">>)),
                   Member("status", JStr(StatusPaused)) >>,
                << Member("totalLength", JLit(<<"0", "7">>)) >> }}

Jobs == TimeJobs \cup StatusJobs

InitConcurrent ==
    /\ intSize \in {32, 64}
    /\ SeqIdle
    /\ gjob \in [Goroutines -> Jobs]
    /\ gpc = [g \in Goroutines |-> IF gjob[g].kind = "UNIXTime" THEN "L87" ELSE "scan"]
    /\ gdata = [g \in Goroutines |-> gjob[g].data]
    /\ gts = [g \in Goroutines |-> Zero]
    /\ gerr = [g \in Goroutines |-> "nil"]
    /\ gut = [g \in Goroutines |-> PriorTime]
    /\ gstatus = [g \in Goroutines |-> ZeroOf(T_Status(intSize))]
    /\ gpos = [g \in Goroutines |-> 1]
    /\ gsaved = [g \in Goroutines |-> "nil"]
    /\ gret = [g \in Goroutines |-> "none"]

\* ts as one variable of the package, shared by every call.
TsSlotShared(g) == 1

\* Where the local ts of goroutine g's call of UnmarshalJSON lives: a
\* variable of the call's own (var ts int64).
TsSlot(g) == g

\* err := json.Unmarshal(data, &ts)
GoParse(g) ==
    /\ gpc[g] = "L87"
    /\ \E r \in {UnmarshalInt64(gdata[g], gts[TsSlot(g)])} :
           /\ gts' = [gts EXCEPT ![TsSlot(g)] = r.val]
           /\ gerr' = [gerr EXCEPT ![g] = r.err]
    /\ gpc' = [gpc EXCEPT ![g] = "L88"]
    /\ UNCHANGED <<gjob, gdata, gut, gstatus, gpos, gsaved, gret>>
    /\ UNCHANGED <<intSize, seqVars>>

\* if err != nil { return err }
GoCheck(g) ==
    /\ gpc[g] = "L88"
    /\ IF gerr[g] # "nil"
       THEN /\ gret' = [gret EXCEPT ![g] = gerr[g]]
            /\ gpc' = [gpc EXCEPT ![g] = "done"]
       ELSE /\ gret' = gret
            /\ gpc' = [gpc EXCEPT ![g] = "L92"]
    /\ UNCHANGED <<gjob, gdata, gts, gerr, gut, gstatus, gpos, gsaved>>
    /\ UNCHANGED <<intSize, seqVars>>

\* *t = UNIXTime{time.Unix(ts, 0)}; return nil
GoStore(g) ==
    /\ gpc[g] = "L92"
    /\ gut' = [gut EXCEPT ![g] = time_Unix(gts[TsSlot(g)], 0)]
    /\ gret' = [gret EXCEPT ![g] = "nil"]
    /\ gpc' = [gpc EXCEPT ![g] = "done"]
    /\ UNCHANGED <<gjob, gdata, gts, gerr, gstatus, gpos, gsaved>>
    /\ UNCHANGED <<intSize, seqVars>>

\* json.Unmarshal: checkValid(data), before anything is stored
GoScan(g) ==
    /\ gpc[g] = "scan"
    /\ IF checkValid(gdata[g])
       THEN /\ gret' = gret
            /\ gpc' = [gpc EXCEPT ![g] = "member"]
       ELSE /\ gret' = [gret EXCEPT ![g] = ErrSyntax]
            /\ gpc' = [gpc EXCEPT ![g] = "done"]
    /\ UNCHANGED <<gjob, gdata, gts, gerr, gut, gstatus, gpos, gsaved>>
    /\ UNCHANGED <<intSize, seqVars>>

\* One turn of the member loop of decodeState.object.
GoMember(g) ==
    /\ gpc[g] = "member"
    /\ gpos[g] <= Len(gdata[g].elems)
    /\ \E st \in {MemberStep(T_Status(intSize), gdata[g].elems[gpos[g]],
                             R(gstatus[g], gsaved[g], FALSE))} :
           /\ gstatus' = [gstatus EXCEPT ![g] = st.val]
           /\ gsaved' = [gsaved EXCEPT ![g] = st.err]
           /\ IF st.abort
              THEN /\ gret' = [gret EXCEPT ![g] = st.err]
                   /\ gpc' = [gpc EXCEPT ![g] = "done"]
                   /\ gpos' = gpos
              ELSE /\ gret' = gret
                   /\ gpc' = gpc
                   /\ gpos' = [gpos EXCEPT ![g] = gpos[g] + 1]
    /\ UNCHANGED <<gjob, gdata, gts, gerr, gut>>
    /\ UNCHANGED <<intSize, seqVars>>

\* The end of the object: json.Unmarshal returns the saved error.
GoReturn(g) ==
    /\ gpc[g] = "member"
    /\ gpos[g] > Len(gdata[g].elems)
    /\ gret' = [gret EXCEPT ![g] = gsaved[g]]
    /\ gpc' = [gpc EXCEPT ![g] = "done"]
    /\ UNCHANGED <<gjob, gdata, gts, gerr, gut, gstatus, gpos, gsaved>>
    /\ UNCHANGED <<intSize, seqVars>>

NextConcurrent ==
    \E g \in Goroutines :
        \/ GoParse(g)
        \/ GoCheck(g)
        \/ GoStore(g)
        \/ GoScan(g)
        \/ GoMember(g)
        \/ GoReturn(g)

SpecConcurrent == InitConcurrent /\ [][NextConcurrent]_vars

(***************************************************************************)
(* What the properties below read from a state.                            *)
(***************************************************************************)
\* The token the message j holds for field n of Status.
WireField(j, n) == Lookup(j, FieldNamed(T_Status(intSize), n))

\* The token the message j holds for bittorrent.creationDateUNIX.
WireCreationDate(j) ==
    Lookup(Lookup(j, FieldNamed(T_Status(intSize), "BitTorrent")),
           FieldNamed(T_BitTorrentStatus, "CreationDateUNIX"))

\* x is a non-empty run of decimal digits.
IsDecimalText(x) == x # <<>> /\ \A i \in 1..Len(x) : IsDigit(x[i])

\* x is the canonical decimal text of a non-negative integer.
IsCanonicalUintText(x) == IsDecimalText(x) /\ (Len(x) = 1 \/ x[1] # "0")

\* x is the canonical decimal text of an integer.
IsCanonicalIntText(x) ==
    \/ IsCanonicalUintText(x)
    \/ /\ Len(x) >= 2
       /\ x[1] = "-"
       /\ IsCanonicalUintText(Tail(x))
       /\ Tail(x) # <<"0">>

\* The number a run of decimal digits denotes.
ValueOfText(x) == Norm(ToDigits(x))

\* The integer the canonical text x denotes fits 64 signed bits.
InInt64Range(x) ==
    IF x[1] = "-" THEN ~Less(Two63, ValueOfText(Tail(x)))
    ELSE Less(ValueOfText(x), Two63)

\* The 64-bit word of the integer the canonical in-range text x denotes.
WordOfText(x) ==
    IF x[1] = "-" THEN Neg64(ValueOfText(Tail(x))) ELSE ValueOfText(x)

\* x is a JSON number token that is an integer: digits after an optional "-".
IsIntegerToken(j) ==
    /\ j.kind = "literal"
    /\ j.lit # <<>>
    /\ IsDecimalText(IF Head(j.lit) = "-" THEN Tail(j.lit) ELSE j.lit)

(***************************************************************************)
(* C1.  The creation date of a torrent on the wire.                        *)
(***************************************************************************)
\* C1 (as the specification states it): json.Marshal writes
\* BitTorrentStatus.CreationDateUNIX as a JSON string holding the decimal
\* seconds, and json.Unmarshal accepts such a string, storing the instant it
\* names.
C1_CreationDateAsString ==
    /\ pc \in {"encoded", "reencoded"} =>
         /\ IsStringToken(WireCreationDate(data).lit)
         /\ WireCreationDate(data).lit
              = Quote(FormatInt(Time_Unix(status.BitTorrent.CreationDateUNIX)))
    /\ ( /\ pc = "decoded"
         /\ IsStringToken(WireCreationDate(data0).lit)
         /\ IsCanonicalIntText(Unquote(WireCreationDate(data0).lit))
         /\ InInt64Range(Unquote(WireCreationDate(data0).lit)) ) =>
         /\ err = "nil"
         /\ status.BitTorrent.CreationDateUNIX
              = time_Unix(WordOfText(Unquote(WireCreationDate(data0).lit)), 0)

(***************************************************************************)
(* C2.  UnmarshalJSON then MarshalJSON on an integer literal.              *)
(***************************************************************************)
\* C2: for every integer x of the signed 64-bit range, UnmarshalJSON accepts
\* the bare literal of x, and MarshalJSON of the UNIXTime it stored writes
\* exactly that literal again.
C2_DecodeEncodeIdentity ==
    /\ ( /\ pc \in {"tdecoded", "treencoded"}
         /\ data0.kind = "literal"
         /\ IsCanonicalIntText(data0.lit)
         /\ InInt64Range(data0.lit) ) =>
         /\ err = "nil"
         /\ ut = time_Unix(WordOfText(data0.lit), 0)
    /\ ( /\ pc = "treencoded"
         /\ data0.kind = "literal"
         /\ IsCanonicalIntText(data0.lit)
         /\ InInt64Range(data0.lit) ) => data = data0

\* C2 witness: the smallest 64-bit integer went through both methods and
\* came back as the text it started from.
C2_Witness ==
    /\ pc = "treencoded"
    /\ data0 = JLit(<<"-">> \o ToChars(Two63))
    /\ data = data0

(***************************************************************************)
(* C3.  MarshalJSON then UnmarshalJSON on a UNIXTime.                      *)
(***************************************************************************)
\* C3: encoding a UNIXTime and decoding the text gives, without error, the
\* instant of the same whole second with no sub-second part: the fraction
\* is dropped, never rounded up.
C3_EncodeDecodeTruncates ==
    pc = "tredecoded" =>
        /\ err = "nil"
        /\ ut.ext = ut0.ext
        /\ ut.nsec = 0
        /\ ut = time_Unix(Time_Unix(ut0), 0)

\* C3 witness: an instant before 1970 with 999999999 ns went through both
\* methods.
C3_Witness ==
    /\ pc = "tredecoded"
    /\ ut0.nsec = 999999999
    /\ IsNeg(Time_Unix(ut0))
    /\ ut.nsec = 0
    /\ ut.ext = ut0.ext

(***************************************************************************)
(* C4.  What UnmarshalJSON refuses.                                        *)
(***************************************************************************)
\* C4 (as the specification states it): UnmarshalJSON returns an error for
\* every input that is not a JSON integer of the 64-bit range (a string, a
\* fraction, a boolean, null, an array, an object) and leaves the
\* destination as it was; it returns no error only for an integer, and then
\* stores the instant of that second.
C4_NonIntegerRejected ==
    pc = "tdecoded" =>
        IF IsIntegerToken(data0) /\ checkValid(data0) /\ ParseInt(data0.lit).err = "nil"
        THEN /\ err = "nil"
             /\ ut = time_Unix(ParseInt(data0.lit).n, 0)
        ELSE /\ err # "nil"
             /\ ut = ut0

(***************************************************************************)
(* C5.  String-encoded numeric fields on decoding.                         *)
(***************************************************************************)
\* C5 (as the specification states it): a string-encoded numeric field of
\* Status takes the integer its JSON string holds in decimal, and a JSON
\* string whose content is not a decimal integer makes json.Unmarshal
\* return an error.
C5_NumericStringsDecoded ==
    ( /\ pc = "decoded"
      /\ data0 \in NumericMessages(intSize) ) =>
        /\ ( \A n \in StringUintFields :
                /\ IsStringToken(WireField(data0, n).lit)
                /\ IsDecimalText(Unquote(WireField(data0, n).lit))
                /\ Less(ValueOfText(Unquote(WireField(data0, n).lit)), TwoPow(intSize)) ) =>
             /\ err = "nil"
             /\ \A n \in StringUintFields :
                    status[n] = ValueOfText(Unquote(WireField(data0, n).lit))
        /\ ( \E n \in StringUintFields :
                /\ IsStringToken(WireField(data0, n).lit)
                /\ ~IsDecimalText(Unquote(WireField(data0, n).lit)) ) =>
             err # "nil"

(***************************************************************************)
(* C6.  String-encoded numeric fields decoded and encoded again.           *)
(***************************************************************************)
\* C6: a string-encoded numeric field received as the JSON string of a
\* canonical decimal integer of the field's range is written by json.Marshal
\* as the same JSON string; the message {"totalLength":"1000",
\* "completedLength":"500","status":"active"} decodes to TotalLength 1000,
\* CompletedLength 500 and StatusActive, and is written with "1000", "500"
\* and "active".
C6_NumericStringsReencoded ==
    /\ pc = "reencoded" =>
         \A n \in StringUintFields :
             ( /\ IsStringToken(WireField(data0, n).lit)
               /\ IsCanonicalUintText(Unquote(WireField(data0, n).lit))
               /\ Less(ValueOfText(Unquote(WireField(data0, n).lit)), TwoPow(intSize)) ) =>
                 WireField(data, n) = WireField(data0, n)
    /\ ( pc \in {"decoded", "reencoded"} /\ data0 = ScenarioMessage ) =>
         /\ err = "nil"
         /\ status.TotalLength = <<1, 0, 0, 0>>
         /\ status.CompletedLength = <<5, 0, 0>>
         /\ status.Status = StatusActive
    /\ ( pc = "reencoded" /\ data0 = ScenarioMessage ) =>
         /\ WireField(data, "TotalLength") = JStr(<<"1", "0", "0", "0">>)
         /\ WireField(data, "CompletedLength") = JStr(<<"5", "0", "0">>)
         /\ WireField(data, "Status") = JStr(StatusActive)

\* C6 witness: the scenario's message was decoded and encoded again.
C6_Witness ==
    /\ pc = "reencoded"
    /\ data0 = ScenarioMessage
    /\ WireField(data, "TotalLength") = JStr(<<"1", "0", "0", "0">>)
    /\ WireField(data, "CompletedLength") = JStr(<<"5", "0", "0">>)

(***************************************************************************)
(* C7.  Status and mode strings on decoding.                               *)
(***************************************************************************)
\* C7 (as the specification states it): a decoded Status holds one of the
\* six DownloadStatus variants and one of the two TorrentMode variants, or
\* an explicit unknown value; any other wire string is refused.
C7_EnumsClosed ==
    ( /\ pc = "decoded"
      /\ data0 \in EnumMessages
      /\ err = "nil" ) =>
        /\ status.Status \in DownloadStatuses \cup {<<>>}
        /\ status.BitTorrent.Mode \in TorrentModes \cup {<<>>}

\* C7 (amended): json.Unmarshal stores the wire string of status and of
\* bittorrent.mode as it is, with its case, and returns no error whatever
\* the string; the field equals a declared variant exactly when the wire
\* string is that variant's text.
C7_EnumsVerbatim ==
    ( /\ pc = "decoded"
      /\ data0 \in EnumMessages ) =>
        /\ err = "nil"
        /\ Quote(status.Status) = WireField(data0, "Status").lit
        /\ Quote(status.BitTorrent.Mode)
             = Lookup(WireField(data0, "BitTorrent"),
                      FieldNamed(T_BitTorrentStatus, "Mode")).lit
        /\ \A v \in DownloadStatuses :
             status.Status = v <=> WireField(data0, "Status") = JStr(v)

\* C7 witness: the wire said "Active" and "bogus"; both were stored.
C7_Witness ==
    /\ pc = "decoded"
    /\ err = "nil"
    /\ status.Status = <<"A", "c", "t", "i", "v", "e">>
    /\ status.Status \notin DownloadStatuses
    /\ status.BitTorrent.Mode = <<"b", "o", "g", "u", "s">>

(***************************************************************************)
(* C8.  json.Marshal then json.Unmarshal on a Status.                      *)
(***************************************************************************)
\* C8: encoding a Status and decoding the text gives, without error, a
\* Status equal to the first in every field, the creation date compared as
\* the instant of its whole second.
C8_RoundTrip ==
    pc = "redecoded" =>
        /\ err = "nil"
        /\ status = [status0 EXCEPT !.BitTorrent.CreationDateUNIX.nsec = 0]

\* C8 witness: a seeding Status with empty FollowedBy and Files and a
\* creation date with a sub-second part went through both calls.
C8_Witness ==
    /\ pc = "redecoded"
    /\ err = "nil"
    /\ status0.Seeder
    /\ status0.FollowedBy = MakeSlice(<<>>)
    /\ status0.Files = MakeSlice(<<>>)
    /\ status0.BitTorrent.CreationDateUNIX.nsec > 0
    /\ status0.BitTorrent.CreationDateUNIX.ext # ZeroTime.ext
    /\ status.BitTorrent.CreationDateUNIX.ext = status0.BitTorrent.CreationDateUNIX.ext

(***************************************************************************)
(* C9.  CompletedLength against TotalLength.                               *)
(***************************************************************************)
\* C9 (as the specification states it): a decoded Status with a non-zero
\* TotalLength has CompletedLength <= TotalLength.
C9_CompletedAtMostTotal ==
    ( /\ pc = "decoded"
      /\ err = "nil"
      /\ status.TotalLength # Zero ) =>
        ~Less(status.TotalLength, status.CompletedLength)

\* C9 (amended): json.Unmarshal stores totalLength and completedLength as
\* the message gives them and compares nothing, so CompletedLength <=
\* TotalLength holds in the Status exactly when it holds in the message.
C9_LengthsAsSent ==
    ( /\ pc = "decoded"
      /\ data0 \in LengthMessages ) =>
        /\ err = "nil"
        /\ JStr(FormatUint(status.TotalLength)) = WireField(data0, "TotalLength")
        /\ JStr(FormatUint(status.CompletedLength)) = WireField(data0, "CompletedLength")

\* C9 witness: a message with totalLength 500 and completedLength 1000 was
\* decoded without error.
C9_Witness ==
    /\ pc = "decoded"
    /\ err = "nil"
    /\ status.TotalLength = <<5, 0, 0>>
    /\ status.CompletedLength = <<1, 0, 0, 0>>
    /\ Less(status.TotalLength, status.CompletedLength)

(***************************************************************************)
(* C10.  Decodes running concurrently.                                     *)
(***************************************************************************)
\* C10: decodes that run concurrently on their own destinations share
\* nothing: the text of each is left as given, a destination is untouched
\* until its own decode writes it, and each finished decode returned and
\* stored what it does when it runs alone.
C10_DecodesIndependent ==
    \A g \in Goroutines :
        /\ gdata[g] = gjob[g].data
        /\ gpc[g] \in {"L87", "scan"} =>
             /\ gut[g] = PriorTime
             /\ gstatus[g] = ZeroOf(T_Status(intSize))
        /\ gjob[g].kind = "UNIXTime" =>
             /\ gstatus[g] = ZeroOf(T_Status(intSize))
             /\ gpc[g] # "done" => gut[g] = PriorTime
             /\ gpc[g] = "done" =>
                  /\ gret[g] = UnmarshalJSON(PriorTime, gjob[g].data).err
                  /\ gut[g] = UnmarshalJSON(PriorTime, gjob[g].data).t
        /\ gjob[g].kind = "Status" =>
             /\ gut[g] = PriorTime
             /\ gpc[g] = "done" =>
                  /\ gret[g] = Unmarshal(gjob[g].data, T_Status(intSize),
                                         ZeroOf(T_Status(intSize))).err
                  /\ gstatus[g] = Unmarshal(gjob[g].data, T_Status(intSize),
                                            ZeroOf(T_Status(intSize))).val

\* C10 witness: two decodes of different timestamps ran side by side and
\* both finished, each with its own instant.
C10_Witness ==
    /\ \A g \in Goroutines : gpc[g] = "done"
    /\ gjob[1].data = JLit(<<"5">>)
    /\ gjob[2].data = JLit(<<"-", "1">>)
    /\ gut[1] = time_Unix(<<5>>, 0)
    /\ gut[2] = time_Unix(Neg64(<<1>>), 0)
    /\ gret[1] = "nil" /\ gret[2] = "nil"

====
